---------------------------- MODULE Spec2Model ----------------------------
(***************************************************************************)
(* Model of rust/graph-wasm/src/graph_processor.rs: the three exported     *)
(* operations process_graph_data, resolve_links and                        *)
(* process_and_resolve_graph.                                              *)
(*                                                                         *)
(* A name is a sequence of characters; normalize lower-cases it character  *)
(* by character.  A weight is an f32: a finite value (an integer standing  *)
(* for the float, only ever compared and copied) or NaN.  A JsValue        *)
(* payload either decodes to a list or is malformed.  An Option is the     *)
(* empty sequence (None) or a one-element sequence (Some).  Vec indices    *)
(* are 0-based as in the source; TLA+ sequences are 1-based, so the node   *)
(* with index i is filtered_nodes[i + 1].                                  *)
(***************************************************************************)
EXTENDS Integers, Sequences, FiniteSets, TLC

VARIABLES
    pc,               \* position inside the running call, "idle" between calls
    op,               \* the exported function that is running
    nodes_json,       \* argument: raw nodes payload
    edges_json,       \* argument: raw edges payload (links_json of resolve_links)
    center_artist,    \* argument: Option<String>
    threshold,        \* argument: f32
    nodes,            \* local: decoded nodes
    edges,            \* local: decoded edges (links in resolve_links)
    connected_nodes,  \* local: FxHashSet<String>
    filtered_edges,   \* local: Vec<Edge>
    filtered_nodes,   \* local: Vec<GraphNode>
    node_map,         \* local: FxHashMap<String, index> (node_indices)
    result            \* the Result<JsValue, JsValue> handed back

vars == << pc, op, nodes_json, edges_json, center_artist, threshold, nodes,
           edges, connected_nodes, filtered_edges, filtered_nodes, node_map,
           result >>

(***************************************************************************)
(* Bounds of the model.                                                    *)
(***************************************************************************)
MaxNodes == 2
MaxEdges == 2

\* Option<T>
None == << >>
Some(v) == << v >>

\* f32 NaN, a value outside the finite weights; the calls of this model pass
\* finite weights and thresholds
NaN == -1

\* Node names: "Ab" and "ab" are two spellings of one identity, "c" is another.
Names == { <<"A", "b">>, <<"a", "b">>, <<"c">> }
\* Names at the ends of edges and links: "AB" is a third spelling of the first
\* identity, equal to no node name as written; "c" is a node name as written.
EndNames == { <<"A", "B">>, <<"c">> }
\* Finite weights below, at and above the threshold the calls use.
Weights == { 1, 2, 3 }
Thresholds == { 2 }

----------------------------------------------------------------------------
(***************************************************************************)
(* Pure helpers.                                                           *)
(***************************************************************************)

\* char::to_lowercase on the characters names are made of
to_lowercase(c) ==
    CASE c = "A" -> "a"
      [] c = "B" -> "b"
      [] c = "C" -> "c"
      [] OTHER -> c

\* fn normalize(s: &str) -> String { s.to_lowercase() }
normalize(s) == [i \in 1..Len(s) |-> to_lowercase(s[i])]

\* f32 `>=`: false as soon as one side is NaN
Ge(w, t) == w # NaN /\ t # NaN /\ w >= t

\* FxHashMap::insert: a present key has its value replaced
Insert(m, k, v) == [x \in (DOMAIN m) \cup {k} |-> IF x = k THEN v ELSE m[x]]

EmptyMap == [x \in {} |-> 0]

\* A JsValue payload and serde_wasm_bindgen::from_value on it
WellFormed(list) == [wellformed |-> TRUE, list |-> list]
Malformed == [wellformed |-> FALSE, list |-> << >>]

\* Result<JsValue, JsValue>
Err(msg) == [ok |-> FALSE, err |-> msg, value |-> << >>]
Ok(v) == [ok |-> TRUE, err |-> "", value |-> v]

\* impl From<Artist> for GraphNode.  Of the Artist fields the model carries id
\* and name; the others (mbid, url, image_url, listeners, playcount, tags,
\* lastfm_url) are copied in the same way and read nowhere.
GraphNodeFrom(artist) ==
    [id |-> artist.id, name |-> artist.name, is_center |-> FALSE,
     x |-> None, y |-> None, fx |-> None, fy |-> None]

\* center_artist.as_ref().map(|s| normalize(s))
center_normalized(center) ==
    IF center = None THEN None ELSE Some(normalize(center[1]))

\* center_normalized.as_ref().map_or(false, |c| normalized == c)
is_center_of(normalized, center_norm) ==
    IF center_norm = None THEN FALSE ELSE normalized = center_norm[1]

----------------------------------------------------------------------------
(***************************************************************************)
(* process_graph_data: its loops.                                          *)
(***************************************************************************)

\* (mutation of pgd_edge_kept: a strict comparison)
pgd_edge_kept_strict(edge, t) == edge.weight # NaN /\ t # NaN /\ edge.weight > t

\* if edge.weight >= threshold
pgd_edge_kept(edge, t) == Ge(edge.weight, t)

\* for edge in edges { if edge.weight >= threshold { ... } }
RECURSIVE pgd_filter_edges(_, _, _, _)
pgd_filter_edges(es, t, connected, filtered) ==
    IF es = << >>
    THEN [connected_nodes |-> connected, filtered_edges |-> filtered]
    ELSE LET edge == Head(es) IN
         IF pgd_edge_kept(edge, t)
         THEN pgd_filter_edges(Tail(es), t,
                  connected \cup {normalize(edge.source), normalize(edge.target)},
                  Append(filtered, edge))
         ELSE pgd_filter_edges(Tail(es), t, connected, filtered)

\* for node in &nodes { norm_cache.insert(node.name.clone(), normalize(&node.name)); }
RECURSIVE pgd_norm_cache(_, _)
pgd_norm_cache(ns, cache) ==
    IF ns = << >> THEN cache
    ELSE pgd_norm_cache(Tail(ns),
             Insert(cache, Head(ns).name, normalize(Head(ns).name)))

\* (mutation of pgd_node_kept: only the center is kept)
pgd_node_kept_center_only(is_connected, is_center) == is_center

\* (mutation of pgd_node_kept: the center is not forced in)
pgd_node_kept_connected_only(is_connected, is_center) == is_connected

\* if is_connected || is_center
pgd_node_kept(is_connected, is_center) == is_connected \/ is_center

\* (mutation of pgd_graph_node: the flag of the conversion is left as it is)
pgd_graph_node_unmarked(node, is_center) == GraphNodeFrom(node)

\* let mut graph_node: GraphNode = node.into(); graph_node.is_center = is_center;
pgd_graph_node(node, is_center) ==
    [GraphNodeFrom(node) EXCEPT !.is_center = is_center]

\* (mutation of pgd_filter_nodes: a node whose identity is already mapped is skipped)
RECURSIVE pgd_filter_nodes_dedup(_, _, _, _, _, _)
pgd_filter_nodes_dedup(ns, norm_cache, connected, center_norm, fnodes, nmap) ==
    IF ns = << >>
    THEN [filtered_nodes |-> fnodes, node_map |-> nmap]
    ELSE LET node == Head(ns)
             normalized == norm_cache[node.name]
             is_connected == normalized \in connected
             is_center == is_center_of(normalized, center_norm)
         IN  IF (is_connected \/ is_center) /\ normalized \notin DOMAIN nmap
             THEN pgd_filter_nodes_dedup(Tail(ns), norm_cache, connected, center_norm,
                      Append(fnodes, pgd_graph_node(node, is_center)),
                      Insert(nmap, normalized, Len(fnodes)))
             ELSE pgd_filter_nodes_dedup(Tail(ns), norm_cache, connected, center_norm,
                      fnodes, nmap)

\* for node in nodes { ... if is_connected || is_center { ... } }
RECURSIVE pgd_filter_nodes(_, _, _, _, _, _)
pgd_filter_nodes(ns, norm_cache, connected, center_norm, fnodes, nmap) ==
    IF ns = << >>
    THEN [filtered_nodes |-> fnodes, node_map |-> nmap]
    ELSE LET node == Head(ns)
             normalized == norm_cache[node.name]
             is_connected == normalized \in connected
             is_center == is_center_of(normalized, center_norm)
         IN  IF pgd_node_kept(is_connected, is_center)
             THEN LET idx == Len(fnodes)
                      graph_node == pgd_graph_node(node, is_center)
                  IN  pgd_filter_nodes(Tail(ns), norm_cache, connected, center_norm,
                          Append(fnodes, graph_node), Insert(nmap, normalized, idx))
             ELSE pgd_filter_nodes(Tail(ns), norm_cache, connected, center_norm,
                      fnodes, nmap)

\* (mutation of pgd_link_kept: only the source is looked up)
pgd_link_kept_source_only(source_norm, target_norm, nmap) ==
    source_norm \in DOMAIN nmap

\* if node_map.contains_key(&source_norm) && node_map.contains_key(&target_norm)
pgd_link_kept(source_norm, target_norm, nmap) ==
    source_norm \in DOMAIN nmap /\ target_norm \in DOMAIN nmap

\* (mutation of pgd_build_links: the link carries the normalized names)
RECURSIVE pgd_build_links_normalized(_, _, _)
pgd_build_links_normalized(es, nmap, graph_links) ==
    IF es = << >> THEN graph_links
    ELSE LET edge == Head(es)
             source_norm == normalize(edge.source)
             target_norm == normalize(edge.target)
         IN  IF pgd_link_kept(source_norm, target_norm, nmap)
             THEN pgd_build_links_normalized(Tail(es), nmap,
                      Append(graph_links,
                             [source |-> source_norm, target |-> target_norm,
                              weight |-> edge.weight]))
             ELSE pgd_build_links_normalized(Tail(es), nmap, graph_links)

\* for edge in filtered_edges { if ... { graph_links.push(GraphLink {..}) } }
RECURSIVE pgd_build_links(_, _, _)
pgd_build_links(es, nmap, graph_links) ==
    IF es = << >> THEN graph_links
    ELSE LET edge == Head(es)
             source_norm == normalize(edge.source)
             target_norm == normalize(edge.target)
         IN  IF pgd_link_kept(source_norm, target_norm, nmap)
             THEN pgd_build_links(Tail(es), nmap,
                      Append(graph_links,
                             [source |-> edge.source, target |-> edge.target,
                              weight |-> edge.weight]))
             ELSE pgd_build_links(Tail(es), nmap, graph_links)


----------------------------------------------------------------------------
(***************************************************************************)
(* resolve_links: its loops.                                               *)
(***************************************************************************)

\* (mutation of rl_node_indices: positions counted from one)
RECURSIVE rl_node_indices_from_one(_, _, _)
rl_node_indices_from_one(ns, idx, node_indices) ==
    IF ns = << >> THEN node_indices
    ELSE rl_node_indices_from_one(Tail(ns), idx + 1,
             Insert(node_indices, normalize(Head(ns).name), idx + 1))

\* (mutation of rl_node_indices: a key already present keeps its first position)
RECURSIVE rl_node_indices_keep_first(_, _, _)
rl_node_indices_keep_first(ns, idx, node_indices) ==
    IF ns = << >> THEN node_indices
    ELSE rl_node_indices_keep_first(Tail(ns), idx + 1,
             IF normalize(Head(ns).name) \in DOMAIN node_indices
             THEN node_indices
             ELSE Insert(node_indices, normalize(Head(ns).name), idx))

\* for (idx, node) in nodes.iter().enumerate() { node_indices.insert(normalize(&node.name), idx) }
RECURSIVE rl_node_indices(_, _, _)
rl_node_indices(ns, idx, node_indices) ==
    IF ns = << >> THEN node_indices
    ELSE rl_node_indices(Tail(ns), idx + 1,
             Insert(node_indices, normalize(Head(ns).name), idx))

\* if let (Some(&src_idx), Some(&tgt_idx)) = (node_indices.get(..), node_indices.get(..))
rl_link_kept(source_norm, target_norm, node_indices) ==
    source_norm \in DOMAIN node_indices /\ target_norm \in DOMAIN node_indices

\* (mutation of rl_resolve: the loop ends at the first link that does not resolve)
RECURSIVE rl_resolve_stop_at_unresolved(_, _, _)
rl_resolve_stop_at_unresolved(ls, node_indices, resolved) ==
    IF ls = << >> THEN resolved
    ELSE LET link == Head(ls)
             source_norm == normalize(link.source)
             target_norm == normalize(link.target)
         IN  IF rl_link_kept(source_norm, target_norm, node_indices)
             THEN rl_resolve_stop_at_unresolved(Tail(ls), node_indices,
                      Append(resolved,
                             [source |-> node_indices[source_norm],
                              target |-> node_indices[target_norm],
                              weight |-> link.weight]))
             ELSE resolved

\* for link in links { ... resolved.push(ResolvedLink {..}) }
RECURSIVE rl_resolve(_, _, _)
rl_resolve(ls, node_indices, resolved) ==
    IF ls = << >> THEN resolved
    ELSE LET link == Head(ls)
             source_norm == normalize(link.source)
             target_norm == normalize(link.target)
         IN  IF rl_link_kept(source_norm, target_norm, node_indices)
             THEN rl_resolve(Tail(ls), node_indices,
                      Append(resolved,
                             [source |-> node_indices[source_norm],
                              target |-> node_indices[target_norm],
                              weight |-> link.weight]))
             ELSE rl_resolve(Tail(ls), node_indices, resolved)

----------------------------------------------------------------------------
(***************************************************************************)
(* process_and_resolve_graph: its loops.                                   *)
(***************************************************************************)

\* if edge.weight >= threshold
prg_edge_kept(edge, t) == Ge(edge.weight, t)

\* Phase 1: for edge in edges { if edge.weight >= threshold { ... } }
RECURSIVE prg_filter_edges(_, _, _, _)
prg_filter_edges(es, t, connected, filtered) ==
    IF es = << >>
    THEN [connected_nodes |-> connected, filtered_edges |-> filtered]
    ELSE LET edge == Head(es) IN
         IF prg_edge_kept(edge, t)
         THEN prg_filter_edges(Tail(es), t,
                  connected \cup {normalize(edge.source), normalize(edge.target)},
                  Append(filtered, edge))
         ELSE prg_filter_edges(Tail(es), t, connected, filtered)

\* if is_connected || is_center
prg_node_kept(is_connected, is_center) == is_connected \/ is_center

\* (mutation of prg_node_idx: the length is read after the push)
prg_node_idx_after_push(fnodes) == Len(fnodes) + 1

\* let idx = filtered_nodes.len() as u32;
prg_node_idx(fnodes) == Len(fnodes)

\* let mut graph_node: GraphNode = node.into(); graph_node.is_center = is_center;
prg_graph_node(node, is_center) ==
    [GraphNodeFrom(node) EXCEPT !.is_center = is_center]

\* Phase 2: for node in nodes { ... if is_connected || is_center { ... } }
RECURSIVE prg_filter_nodes(_, _, _, _, _)
prg_filter_nodes(ns, connected, center_norm, fnodes, node_indices) ==
    IF ns = << >>
    THEN [filtered_nodes |-> fnodes, node_map |-> node_indices]
    ELSE LET node == Head(ns)
             normalized == normalize(node.name)
             is_connected == normalized \in connected
             is_center == is_center_of(normalized, center_norm)
         IN  IF prg_node_kept(is_connected, is_center)
             THEN LET idx == prg_node_idx(fnodes)
                      graph_node == prg_graph_node(node, is_center)
                  IN  prg_filter_nodes(Tail(ns), connected, center_norm,
                          Append(fnodes, graph_node),
                          Insert(node_indices, normalized, idx))
             ELSE prg_filter_nodes(Tail(ns), connected, center_norm,
                      fnodes, node_indices)

\* if let (Some(&src_idx), Some(&tgt_idx)) = (node_indices.get(..), node_indices.get(..))
prg_link_kept(source_norm, target_norm, node_indices) ==
    source_norm \in DOMAIN node_indices /\ target_norm \in DOMAIN node_indices

\* (mutation of prg_resolve: the two indices change places)
RECURSIVE prg_resolve_swapped(_, _, _)
prg_resolve_swapped(es, node_indices, resolved_links) ==
    IF es = << >> THEN resolved_links
    ELSE LET edge == Head(es)
             source_norm == normalize(edge.source)
             target_norm == normalize(edge.target)
         IN  IF prg_link_kept(source_norm, target_norm, node_indices)
             THEN prg_resolve_swapped(Tail(es), node_indices,
                      Append(resolved_links,
                             [source |-> node_indices[target_norm],
                              target |-> node_indices[source_norm],
                              weight |-> edge.weight]))
             ELSE prg_resolve_swapped(Tail(es), node_indices, resolved_links)

\* Phase 3: for edge in filtered_edges { ... resolved_links.push(ResolvedLink {..}) }
RECURSIVE prg_resolve(_, _, _)
prg_resolve(es, node_indices, resolved_links) ==
    IF es = << >> THEN resolved_links
    ELSE LET edge == Head(es)
             source_norm == normalize(edge.source)
             target_norm == normalize(edge.target)
         IN  IF prg_link_kept(source_norm, target_norm, node_indices)
             THEN prg_resolve(Tail(es), node_indices,
                      Append(resolved_links,
                             [source |-> node_indices[source_norm],
                              target |-> node_indices[target_norm],
                              weight |-> edge.weight]))
             ELSE prg_resolve(Tail(es), node_indices, resolved_links)


----------------------------------------------------------------------------
(***************************************************************************)
(* The three exported functions, as functions of their arguments.          *)
(***************************************************************************)

process_graph_data(nj, ej, center, t) ==
    IF ~nj.wellformed THEN Err("Failed to parse nodes")
    ELSE IF ~ej.wellformed THEN Err("Failed to parse edges")
    ELSE LET p1 == pgd_filter_edges(ej.list, t, {}, << >>)
             p2 == pgd_filter_nodes(nj.list, pgd_norm_cache(nj.list, EmptyMap),
                                    p1.connected_nodes, center_normalized(center),
                                    << >>, EmptyMap)
         IN  Ok([nodes |-> p2.filtered_nodes,
                 links |-> pgd_build_links(p1.filtered_edges, p2.node_map, << >>)])

resolve_links(nj, lj) ==
    IF ~nj.wellformed THEN Err("Failed to parse nodes")
    ELSE IF ~lj.wellformed THEN Err("Failed to parse links")
    ELSE Ok(rl_resolve(lj.list, rl_node_indices(nj.list, 0, EmptyMap), << >>))

process_and_resolve_graph(nj, ej, center, t) ==
    IF ~nj.wellformed THEN Err("Failed to parse nodes")
    ELSE IF ~ej.wellformed THEN Err("Failed to parse edges")
    ELSE LET p1 == prg_filter_edges(ej.list, t, {}, << >>)
             p2 == prg_filter_nodes(nj.list, p1.connected_nodes,
                                    center_normalized(center), << >>, EmptyMap)
         IN  Ok([nodes |-> p2.filtered_nodes,
                 links |-> prg_resolve(p1.filtered_edges, p2.node_map, << >>)])

----------------------------------------------------------------------------
(***************************************************************************)
(* The inputs a caller can pass.                                           *)
(***************************************************************************)

SeqsUpTo(S, n) == UNION { [1..k -> S] : k \in 0..n }

\* Artist records; id tells apart two records of the same name
Artists(names) == [i \in 1..Len(names) |-> [id |-> i, name |-> names[i]]]

\* GraphNode records as a caller of resolve_links passes them
GraphNodes(names) == [i \in 1..Len(names) |-> GraphNodeFrom(Artists(names)[i])]

\* Edge and GraphLink have the same three fields
Edge == [source : EndNames, target : EndNames, weight : Weights]

ArtistPayloads ==
    {Malformed} \cup { WellFormed(Artists(ns)) : ns \in SeqsUpTo(Names, MaxNodes) }
GraphNodePayloads ==
    {Malformed} \cup { WellFormed(GraphNodes(ns)) : ns \in SeqsUpTo(Names, MaxNodes) }
EdgePayloads ==
    {Malformed} \cup { WellFormed(es) : es \in SeqsUpTo(Edge, MaxEdges) }
Centers == {None} \cup { Some(n) : n \in Names }

----------------------------------------------------------------------------
(***************************************************************************)
(* The state machine: one call at a time, stepping through its phases.     *)
(***************************************************************************)

Idle ==
    /\ pc = "idle"
    /\ op = "none"
    /\ nodes_json = Malformed
    /\ edges_json = Malformed
    /\ center_artist = None
    /\ threshold = 0
    /\ nodes = << >>
    /\ edges = << >>
    /\ connected_nodes = {}
    /\ filtered_edges = << >>
    /\ filtered_nodes = << >>
    /\ node_map = EmptyMap
    /\ result = Ok(<< >>)

Init == Idle

locals == << nodes, edges, connected_nodes, filtered_edges, filtered_nodes, node_map >>
args == << op, nodes_json, edges_json, center_artist, threshold >>

\* a caller invokes process_graph_data(nodes_json, edges_json, center_artist, threshold)
CallProcessGraphData ==
    /\ pc = "idle"
    /\ \E nj \in ArtistPayloads, ej \in EdgePayloads, c \in Centers, t \in Thresholds :
          /\ op' = "process_graph_data"
          /\ nodes_json' = nj /\ edges_json' = ej
          /\ center_artist' = c /\ threshold' = t
    /\ pc' = "decode_nodes"
    /\ UNCHANGED << locals, result >>

\* a caller invokes resolve_links(nodes_json, links_json)
CallResolveLinks ==
    /\ pc = "idle"
    /\ \E nj \in GraphNodePayloads, lj \in EdgePayloads :
          /\ op' = "resolve_links"
          /\ nodes_json' = nj /\ edges_json' = lj
    /\ pc' = "decode_nodes"
    /\ UNCHANGED << center_artist, threshold, locals, result >>

\* a caller invokes process_and_resolve_graph(nodes_json, edges_json, center_artist, threshold)
CallProcessAndResolveGraph ==
    /\ pc = "idle"
    /\ \E nj \in ArtistPayloads, ej \in EdgePayloads, c \in Centers, t \in Thresholds :
          /\ op' = "process_and_resolve_graph"
          /\ nodes_json' = nj /\ edges_json' = ej
          /\ center_artist' = c /\ threshold' = t
    /\ pc' = "decode_nodes"
    /\ UNCHANGED << locals, result >>

\* (mutation of DecodeNodes: a payload that does not decode counts as an empty list)
DecodeNodes_defaulting ==
    /\ pc = "decode_nodes"
    /\ nodes' = nodes_json.list
    /\ pc' = "decode_edges"
    /\ UNCHANGED << args, edges, connected_nodes, filtered_edges, filtered_nodes,
                    node_map, result >>

\* let nodes = from_value(nodes_json.clone()).map_err("Failed to parse nodes: ..")?
\* (the same statement opens all three functions)
DecodeNodes ==
    /\ pc = "decode_nodes"
    /\ IF nodes_json.wellformed
       THEN /\ nodes' = nodes_json.list
            /\ pc' = "decode_edges"
            /\ UNCHANGED result
       ELSE /\ result' = Err("Failed to parse nodes")
            /\ pc' = "done"
            /\ UNCHANGED nodes
    /\ UNCHANGED << args, edges, connected_nodes, filtered_edges, filtered_nodes,
                    node_map >>

\* let edges = from_value(edges_json.clone()).map_err("Failed to parse edges: ..")?
DecodeEdges ==
    /\ pc = "decode_edges"
    /\ op \in {"process_graph_data", "process_and_resolve_graph"}
    /\ IF edges_json.wellformed
       THEN /\ edges' = edges_json.list
            /\ pc' = "filter_edges"
            /\ UNCHANGED << result, nodes >>
       ELSE /\ result' = Err("Failed to parse edges")
            /\ pc' = "done"
            /\ nodes' = << >>
            /\ UNCHANGED edges
    /\ UNCHANGED << args, connected_nodes, filtered_edges, filtered_nodes, node_map >>

\* let links = from_value(links_json.clone()).map_err("Failed to parse links: ..")?
DecodeLinks ==
    /\ pc = "decode_edges"
    /\ op = "resolve_links"
    /\ IF edges_json.wellformed
       THEN /\ edges' = edges_json.list
            /\ pc' = "node_indices"
            /\ UNCHANGED << result, nodes >>
       ELSE /\ result' = Err("Failed to parse links")
            /\ pc' = "done"
            /\ nodes' = << >>
            /\ UNCHANGED edges
    /\ UNCHANGED << args, connected_nodes, filtered_edges, filtered_nodes, node_map >>

\* process_graph_data, "Single pass: filter edges AND collect connected nodes"
PgdFilterEdges ==
    /\ pc = "filter_edges"
    /\ op = "process_graph_data"
    /\ LET p1 == pgd_filter_edges(edges, threshold, {}, << >>) IN
          /\ connected_nodes' = p1.connected_nodes
          /\ filtered_edges' = p1.filtered_edges
    /\ edges' = << >>
    /\ pc' = "filter_nodes"
    /\ UNCHANGED << args, nodes, filtered_nodes, node_map, result >>

\* process_graph_data, "Build normalization cache" and "Filter nodes and build node map"
PgdFilterNodes ==
    /\ pc = "filter_nodes"
    /\ op = "process_graph_data"
    /\ LET p2 == pgd_filter_nodes(nodes, pgd_norm_cache(nodes, EmptyMap),
                                  connected_nodes, center_normalized(center_artist),
                                  << >>, EmptyMap) IN
          /\ filtered_nodes' = p2.filtered_nodes
          /\ node_map' = p2.node_map
    /\ nodes' = << >>
    /\ pc' = "build_links"
    /\ UNCHANGED << args, edges, connected_nodes, filtered_edges, result >>

\* process_graph_data, "Build graph links" and the ProcessedGraph handed back
PgdBuildLinks ==
    /\ pc = "build_links"
    /\ op = "process_graph_data"
    /\ result' = Ok([nodes |-> filtered_nodes,
                     links |-> pgd_build_links(filtered_edges, node_map, << >>)])
    /\ pc' = "done"
    /\ UNCHANGED << args, locals >>

\* resolve_links, "Build node index map"
RlNodeIndices ==
    /\ pc = "node_indices"
    /\ op = "resolve_links"
    /\ node_map' = rl_node_indices(nodes, 0, EmptyMap)
    /\ pc' = "resolve"
    /\ UNCHANGED << args, nodes, edges, connected_nodes, filtered_edges,
                    filtered_nodes, result >>

\* resolve_links, "Resolve links to indices" and the list handed back
RlResolve ==
    /\ pc = "resolve"
    /\ op = "resolve_links"
    /\ result' = Ok(rl_resolve(edges, node_map, << >>))
    /\ pc' = "done"
    /\ UNCHANGED << args, locals >>

\* process_and_resolve_graph, "Phase 1: Filter edges and collect connected nodes"
PrgFilterEdges ==
    /\ pc = "filter_edges"
    /\ op = "process_and_resolve_graph"
    /\ LET p1 == prg_filter_edges(edges, threshold, {}, << >>) IN
          /\ connected_nodes' = p1.connected_nodes
          /\ filtered_edges' = p1.filtered_edges
    /\ edges' = << >>
    /\ pc' = "filter_nodes"
    /\ UNCHANGED << args, nodes, filtered_nodes, node_map, result >>

\* process_and_resolve_graph, "Phase 2: Filter nodes and build index map"
PrgFilterNodes ==
    /\ pc = "filter_nodes"
    /\ op = "process_and_resolve_graph"
    /\ LET p2 == prg_filter_nodes(nodes, connected_nodes,
                                  center_normalized(center_artist), << >>, EmptyMap) IN
          /\ filtered_nodes' = p2.filtered_nodes
          /\ node_map' = p2.node_map
    /\ nodes' = << >>
    /\ pc' = "build_links"
    /\ UNCHANGED << args, edges, connected_nodes, filtered_edges, result >>

\* process_and_resolve_graph, "Phase 3: Resolve links" and the ResolvedGraph handed back
PrgResolve ==
    /\ pc = "build_links"
    /\ op = "process_and_resolve_graph"
    /\ result' = Ok([nodes |-> filtered_nodes,
                     links |-> prg_resolve(filtered_edges, node_map, << >>)])
    /\ pc' = "done"
    /\ UNCHANGED << args, locals >>

\* the call returns; nothing of it outlives the return
Return ==
    /\ pc = "done"
    /\ pc' = "idle"
    /\ op' = "none"
    /\ nodes_json' = Malformed
    /\ edges_json' = Malformed
    /\ center_artist' = None
    /\ threshold' = 0
    /\ nodes' = << >>
    /\ edges' = << >>
    /\ connected_nodes' = {}
    /\ filtered_edges' = << >>
    /\ filtered_nodes' = << >>
    /\ node_map' = EmptyMap
    /\ result' = Ok(<< >>)

Next ==
    \/ CallProcessGraphData
    \/ CallResolveLinks
    \/ CallProcessAndResolveGraph
    \/ DecodeNodes
    \/ DecodeEdges
    \/ DecodeLinks
    \/ PgdFilterEdges
    \/ PgdFilterNodes
    \/ PgdBuildLinks
    \/ RlNodeIndices
    \/ RlResolve
    \/ PrgFilterEdges
    \/ PrgFilterNodes
    \/ PrgResolve
    \/ Return

Spec == Init /\ [][Next]_vars

----------------------------------------------------------------------------
(***************************************************************************)
(* Vocabulary of the properties.                                           *)
(***************************************************************************)

ProcessOps == {"process_graph_data", "process_and_resolve_graph"}

\* the call of function o has returned Ok
Returned(o) == pc = "done" /\ op = o /\ result.ok

InNodes == nodes_json.list
InEdges == edges_json.list

\* the edge passes the threshold of the call
Passes(e) == Ge(e.weight, threshold)

\* some node of list ns has the identity of name
Named(ns, name) == \E i \in 1..Len(ns) : normalize(ns[i].name) = normalize(name)

\* the edges of es, in order, that pass the threshold
Passing(es) == SelectSeq(es, Passes)

\* the identities the edges of es connect
Endpoints(es) ==
    UNION { {normalize(es[i].source), normalize(es[i].target)} : i \in 1..Len(es) }

\* the output node at position j is the input node at position i, converted
SameNode(out, j, i) ==
    /\ out[j].id = InNodes[i].id
    /\ out[j].name = InNodes[i].name

----------------------------------------------------------------------------
(***************************************************************************)
(* C1.  process_and_resolve_graph returns the node list and the resolved   *)
(* links that process_graph_data followed by resolve_links on its output   *)
(* returns, for every input.                                               *)
(***************************************************************************)
C1_FusionEquivalence ==
    Returned("process_and_resolve_graph") =>
        LET P == process_graph_data(nodes_json, edges_json, center_artist, threshold)
            R == resolve_links(WellFormed(P.value.nodes), WellFormed(P.value.links))
        IN  /\ P.ok
            /\ R.ok
            /\ result.value.nodes = P.value.nodes
            /\ result.value.links = R.value

\* duplicate identities in mixed case, an edge naming an absent node, a resolved link
C1_Witness ==
    /\ Returned("process_and_resolve_graph")
    /\ Len(InNodes) = 2
    /\ InNodes[1].name # InNodes[2].name
    /\ normalize(InNodes[1].name) = normalize(InNodes[2].name)
    /\ Len(InEdges) = 2
    /\ Passes(InEdges[1]) /\ Passes(InEdges[2])
    /\ ~Named(InNodes, InEdges[1].source)
    /\ Len(result.value.nodes) = 2
    /\ Len(result.value.links) = 1

(***************************************************************************)
(* C2.  Every GraphLink process_graph_data emits has a node of the emitted *)
(* node list with the identity of its source and one with the identity of  *)
(* its target.                                                             *)
(***************************************************************************)
C2_NoDanglingLink ==
    Returned("process_graph_data") =>
        \A k \in 1..Len(result.value.links) :
            /\ Named(result.value.nodes, result.value.links[k].source)
            /\ Named(result.value.nodes, result.value.links[k].target)

\* a passing edge whose target is no input node is left out, another edge is emitted
C2_Witness ==
    /\ Returned("process_graph_data")
    /\ Len(InEdges) = 2
    /\ Passes(InEdges[1]) /\ Passes(InEdges[2])
    /\ Named(InNodes, InEdges[1].source)
    /\ ~Named(InNodes, InEdges[1].target)
    /\ result.value.links = << InEdges[2] >>

(***************************************************************************)
(* C3.  Every ResolvedLink of resolve_links and process_and_resolve_graph  *)
(* has both indices in 0 .. (length of the accompanying node list) - 1.    *)
(***************************************************************************)
C3_IndicesInRange ==
    /\ Returned("resolve_links") =>
          \A k \in 1..Len(result.value) :
              /\ result.value[k].source \in 0..(Len(InNodes) - 1)
              /\ result.value[k].target \in 0..(Len(InNodes) - 1)
    /\ Returned("process_and_resolve_graph") =>
          \A k \in 1..Len(result.value.links) :
              /\ result.value.links[k].source \in 0..(Len(result.value.nodes) - 1)
              /\ result.value.links[k].target \in 0..(Len(result.value.nodes) - 1)

\* a link that resolves to the last position of a two-node list
C3_Witness ==
    /\ Returned("resolve_links")
    /\ Len(InNodes) = 2
    /\ \E k \in 1..Len(result.value) :
          result.value[k].source = 0 /\ result.value[k].target = 1

(***************************************************************************)
(* C4.  An input node is in the output node list iff its identity is the   *)
(* source or target identity of an edge with weight >= threshold or is the *)
(* center identity; a center that names no input node changes nothing.     *)
(***************************************************************************)
C4_NodeInclusion ==
    \A o \in ProcessOps :
        Returned(o) =>
            /\ \A i \in 1..Len(InNodes) :
                  (\E j \in 1..Len(result.value.nodes) :
                        SameNode(result.value.nodes, j, i))
                  <=> \/ normalize(InNodes[i].name) \in Endpoints(Passing(InEdges))
                      \/ /\ center_artist # None
                         /\ normalize(InNodes[i].name) = normalize(center_artist[1])
            /\ (center_artist # None /\ ~Named(InNodes, center_artist[1])) =>
                  result = IF o = "process_graph_data"
                           THEN process_graph_data(nodes_json, edges_json, None, threshold)
                           ELSE process_and_resolve_graph(nodes_json, edges_json, None,
                                                          threshold)

\* the center has no passing edge and is in the output, next to a connected node
C4_Witness ==
    /\ Returned("process_graph_data")
    /\ center_artist # None
    /\ Len(InNodes) = 2
    /\ normalize(InNodes[1].name) = normalize(center_artist[1])
    /\ normalize(InNodes[1].name) \notin Endpoints(Passing(InEdges))
    /\ normalize(InNodes[2].name) \in Endpoints(Passing(InEdges))
    /\ Len(result.value.nodes) = 2

(***************************************************************************)
(* C5.  An edge survives edge filtering iff weight >= threshold, the       *)
(* weight equal to the threshold being kept; the surviving edges keep      *)
(* their input order, only their endpoints enter the connected set, and no *)
(* edge below the threshold appears as a link.                             *)
(***************************************************************************)
C5_EdgeFilter ==
    \A o \in ProcessOps :
        /\ (op = o /\ pc \in {"filter_nodes", "build_links"}) =>
              /\ filtered_edges = Passing(InEdges)
              /\ connected_nodes = Endpoints(Passing(InEdges))
        /\ Returned(o) =>
              \A k \in 1..Len(result.value.links) :
                  Passes(result.value.links[k])

\* of two edges the one below the threshold is dropped, the one equal to it kept
C5_Witness ==
    /\ pc = "filter_nodes"
    /\ op = "process_graph_data"
    /\ Len(InEdges) = 2
    /\ InEdges[1].weight < threshold
    /\ InEdges[2].weight = threshold
    /\ filtered_edges = << InEdges[2] >>
    /\ connected_nodes = {normalize(InEdges[2].source), normalize(InEdges[2].target)}

(***************************************************************************)
(* C6.  The output node list is a subsequence of the input node list:      *)
(* kept nodes stay in input order, and two input nodes of one identity     *)
(* are kept as two output nodes at distinct positions.                     *)
(***************************************************************************)
C6_NodeOrder ==
    \A o \in ProcessOps :
        Returned(o) =>
            LET out == result.value.nodes IN
            /\ \E f \in [1..Len(out) -> 1..Len(InNodes)] :
                  /\ \A j \in 1..Len(out) : SameNode(out, j, f[j])
                  /\ \A j, k \in 1..Len(out) : j < k => f[j] < f[k]
            /\ \A i, k \in 1..Len(InNodes) :
                  ( /\ i < k
                    /\ normalize(InNodes[i].name) = normalize(InNodes[k].name)
                    /\ \E j \in 1..Len(out) : SameNode(out, j, i) )
                  => \E j, l \in 1..Len(out) :
                        j < l /\ SameNode(out, j, i) /\ SameNode(out, l, k)

\* two input nodes of one identity, differently spelled, are both in the output
C6_Witness ==
    /\ Returned("process_graph_data")
    /\ Len(InNodes) = 2
    /\ InNodes[1].name # InNodes[2].name
    /\ normalize(InNodes[1].name) = normalize(InNodes[2].name)
    /\ Len(result.value.nodes) = 2
    /\ SameNode(result.value.nodes, 1, 1)
    /\ SameNode(result.value.nodes, 2, 2)

(***************************************************************************)
(* C7.  An output node has is_center true iff a center name was supplied   *)
(* and the node's identity is the center's identity.                       *)
(***************************************************************************)
C7_IsCenter ==
    \A o \in ProcessOps :
        Returned(o) =>
            \A j \in 1..Len(result.value.nodes) :
                result.value.nodes[j].is_center
                <=> /\ center_artist # None
                    /\ normalize(result.value.nodes[j].name) = normalize(center_artist[1])

\* the center is flagged, a connected node that is not the center is not
C7_Witness ==
    /\ Returned("process_graph_data")
    /\ center_artist # None
    /\ Len(result.value.nodes) = 2
    /\ result.value.nodes[1].is_center
    /\ ~result.value.nodes[2].is_center
    /\ normalize(result.value.nodes[2].name) \in Endpoints(Passing(InEdges))

(***************************************************************************)
(* C8.  Index resolution over a node list with two or more nodes of one    *)
(* identity.                                                               *)
(***************************************************************************)

\* 0-based position of the first / last node of ns with identity key
FirstIndex(ns, key) ==
    (CHOOSE i \in 1..Len(ns) :
        /\ normalize(ns[i].name) = key
        /\ \A j \in 1..(i - 1) : normalize(ns[j].name) # key) - 1
LastIndex(ns, key) ==
    (CHOOSE i \in 1..Len(ns) :
        /\ normalize(ns[i].name) = key
        /\ \A j \in (i + 1)..Len(ns) : normalize(ns[j].name) # key) - 1

\* the links of ls, in order, whose two endpoints name a node of ns
Resolvable(ns, ls) ==
    LET both(l) == Named(ns, l.source) /\ Named(ns, l.target)
    IN  SelectSeq(ls, both)

\* every resolved link of out carries the positions Index gives its endpoints
ResolvesBy(Index(_, _), ns, ls, out) ==
    \A k \in 1..Len(out) :
        /\ out[k].source = Index(ns, normalize(Resolvable(ns, ls)[k].source))
        /\ out[k].target = Index(ns, normalize(Resolvable(ns, ls)[k].target))

C9_ResolveStandalone ==
    (pc = "done" /\ op = "resolve_links"
        /\ nodes_json.wellformed /\ edges_json.wellformed) =>
        LET kept == Resolvable(InNodes, InEdges) IN
        /\ result.ok
        /\ Len(result.value) = Len(kept)
        /\ \A k \in 1..Len(kept) :
              /\ result.value[k].weight = kept[k].weight
              /\ result.value[k].source \in 0..(Len(InNodes) - 1)
              /\ result.value[k].target \in 0..(Len(InNodes) - 1)
              /\ normalize(InNodes[result.value[k].source + 1].name)
                    = normalize(kept[k].source)
              /\ normalize(InNodes[result.value[k].target + 1].name)
                    = normalize(kept[k].target)

\* the first link names an absent node and is dropped, the second is resolved
C9_Witness ==
    /\ Returned("resolve_links")
    /\ Len(InEdges) = 2
    /\ ~Named(InNodes, InEdges[1].target)
    /\ Named(InNodes, InEdges[2].source) /\ Named(InNodes, InEdges[2].target)
    /\ Len(result.value) = 1
    /\ result.value[1].weight = InEdges[2].weight

(***************************************************************************)
(* C10.  A payload that does not decode makes the call return an error     *)
(* naming the input (nodes, edges or links) and no graph; no filtering     *)
(* step runs before both payloads have decoded; the nodes payload is       *)
(* decoded first, so with both malformed the error is the nodes one.       *)
(***************************************************************************)
NothingFiltered ==
    /\ connected_nodes = {}
    /\ filtered_edges = << >>
    /\ filtered_nodes = << >>
    /\ DOMAIN node_map = {}

C10_DecodeFailure ==
    /\ pc = "done" =>
          /\ ~nodes_json.wellformed => result = Err("Failed to parse nodes")
          /\ (nodes_json.wellformed /\ ~edges_json.wellformed) =>
                result = Err(IF op = "resolve_links" THEN "Failed to parse links"
                                                     ELSE "Failed to parse edges")
          /\ (nodes_json.wellformed /\ edges_json.wellformed) => result.ok
          /\ ~result.ok => (result.value = << >> /\ NothingFiltered)
    /\ pc \in {"decode_nodes", "decode_edges"} => NothingFiltered
    /\ pc = "decode_edges" => (nodes_json.wellformed /\ nodes = InNodes)
    /\ pc \in {"filter_edges", "filter_nodes", "build_links", "node_indices", "resolve"}
          => (nodes_json.wellformed /\ edges_json.wellformed)

\* both payloads malformed: the error is the nodes one
C10_Witness ==
    /\ pc = "done"
    /\ op = "process_graph_data"
    /\ ~nodes_json.wellformed
    /\ ~edges_json.wellformed
    /\ result = Err("Failed to parse nodes")

(***************************************************************************)
(* C11.  Every GraphLink of process_graph_data carries the source, target  *)
(* and weight of the input edge it came from as given (the spelling of the *)
(* edge, not the normalized key), and the links are in the relative order  *)
(* of their edges in the input edge list.                                  *)
(***************************************************************************)
C11_LinkFrame ==
    Returned("process_graph_data") =>
        LET links == result.value.links IN
        \E f \in [1..Len(links) -> 1..Len(InEdges)] :
            /\ \A k \in 1..Len(links) :
                  /\ links[k].source = InEdges[f[k]].source
                  /\ links[k].target = InEdges[f[k]].target
                  /\ links[k].weight = InEdges[f[k]].weight
            /\ \A j, k \in 1..Len(links) : j < k => f[j] < f[k]

\* two different edges, one written in upper case, are emitted as given, in order
C11_Witness ==
    /\ Returned("process_graph_data")
    /\ Len(InEdges) = 2
    /\ InEdges[1] # InEdges[2]
    /\ InEdges[1].source # normalize(InEdges[1].source)
    /\ InEdges[1].weight > threshold
    /\ result.value.links = InEdges

(***************************************************************************)
(* C12.  The node at the source index of a ResolvedLink has the identity   *)
(* of the source of the link or edge it came from, and likewise for the    *)
(* target, whatever the letter case; when the identities of the node list  *)
(* are unique, the index is the 0-based position of the one node of that   *)
(* identity.                                                               *)
(***************************************************************************)

\* no two nodes of ns have the same identity
UniqueIdentities(ns) ==
    \A i, j \in 1..Len(ns) :
        normalize(ns[i].name) = normalize(ns[j].name) => i = j

\* out resolves, link by link, the links of ls that name two nodes of ns
PointsAtIdentity(ns, ls, out) ==
    LET kept == Resolvable(ns, ls) IN
    /\ Len(out) = Len(kept)
    /\ \A k \in 1..Len(out) :
          /\ out[k].source + 1 \in 1..Len(ns)
          /\ out[k].target + 1 \in 1..Len(ns)
          /\ normalize(ns[out[k].source + 1].name) = normalize(kept[k].source)
          /\ normalize(ns[out[k].target + 1].name) = normalize(kept[k].target)
          /\ UniqueIdentities(ns) =>
                \A i \in 1..Len(ns) :
                    /\ normalize(ns[i].name) = normalize(kept[k].source)
                          => out[k].source = i - 1
                    /\ normalize(ns[i].name) = normalize(kept[k].target)
                          => out[k].target = i - 1

C12_IndexIdentity ==
    /\ Returned("resolve_links") =>
          PointsAtIdentity(InNodes, InEdges, result.value)
    /\ Returned("process_and_resolve_graph") =>
          PointsAtIdentity(result.value.nodes, Passing(InEdges), result.value.links)

\* an edge written "AB" -> "c" resolves to the nodes "Ab" at 0 and "c" at 1
C12_Witness ==
    /\ Returned("process_and_resolve_graph")
    /\ Len(result.value.nodes) = 2
    /\ UniqueIdentities(result.value.nodes)
    /\ Len(InEdges) = 1
    /\ InEdges[1].source # result.value.nodes[1].name
    /\ normalize(InEdges[1].source) = normalize(result.value.nodes[1].name)
    /\ result.value.links =
          << [source |-> 0, target |-> 1, weight |-> InEdges[1].weight] >>

(***************************************************************************)
(* C13.  In process_graph_data an edge with weight >= threshold is missing *)
(* from the links iff its source or its target has the identity of no      *)
(* input node: the links are the passing edges that name two input nodes,  *)
(* all passing edges when every endpoint names an input node.  Node        *)
(* filtering never makes the link-building check drop an edge.             *)
(***************************************************************************)
C13_LinkCompleteness ==
    /\ Returned("process_graph_data") =>
          /\ result.value.links = Resolvable(InNodes, Passing(InEdges))
          /\ (\A i \in 1..Len(InEdges) :
                 Named(InNodes, InEdges[i].source) /\ Named(InNodes, InEdges[i].target))
             => result.value.links = Passing(InEdges)
    /\ (op = "process_graph_data" /\ pc = "build_links") =>
          \A k \in 1..Len(filtered_edges) :
              LET e == filtered_edges[k] IN
              (normalize(e.source) \in DOMAIN node_map
                  /\ normalize(e.target) \in DOMAIN node_map)
              <=> (Named(InNodes, e.source) /\ Named(InNodes, e.target))

\* of two passing edges the second names an absent node and is the only one missing
C13_Witness ==
    /\ Returned("process_graph_data")
    /\ Len(InEdges) = 2
    /\ Passes(InEdges[1]) /\ Passes(InEdges[2])
    /\ Named(InNodes, InEdges[1].source) /\ Named(InNodes, InEdges[1].target)
    /\ ~Named(InNodes, InEdges[2].source)
    /\ result.value.links = << InEdges[1] >>

============================================================================
